---- MODULE Spec2Model ----
(***************************************************************************)
(* A model of fitconverter/fit_converter.py: FitConverter.convert_fit and  *)
(* _modify_manufacturer_binary (header validation and normalisation, the   *)
(* linear scan over definition and data records, the field patches, the    *)
(* file_creator insertion and the CRC-16 repair).                          *)
(*                                                                         *)
(* A byte buffer is a sequence over 0..255; the byte at offset i of buffer *)
(* d is d[i + 1].  Python integers are unbounded; the model checker's are  *)
(* 32-bit, so a value read as a little-endian u32 is kept as two 16-bit    *)
(* limbs [lo, hi] (value = lo + 65536 * hi), and hi >= 65536 is a value    *)
(* above 4294967295 that struct.pack_into('<I', ...) refuses.              *)
(***************************************************************************)
EXTENDS Integers, Sequences, FiniteSets, TLC

VARIABLES
    input,                 \* fit_data, the bytes handed to convert_fit
    data,                  \* the mutable copy; the returned bytes once pc = "done"
    pc,                    \* "call" | "scan" | "finish" | "done" | "raised"
    pos,                   \* scan position
    end_pos,               \* end of the record stream
    data_size,             \* payload_size read from the header
    local_definitions,     \* local message type -> definition
    manufacturer_changed,
    file_creator_found,
    halt,                  \* why the while loop was left
    error,                 \* the exception convert_fit wraps, "" if none
    log,                   \* the records the scan processed, in order
    pass,                  \* number of the current call of convert_fit
    peer,                  \* the locals of a second call while it is not running
    solo,                  \* the outcomes of the calls that ran on their own
    mode,                  \* "single" | "solo" | "paired" | "crc16"
    crc_reg                \* crc, the accumulator of calculate_crc16 run step by step

vars == <<input, data, pc, pos, end_pos, data_size, local_definitions,
          manufacturer_changed, file_creator_found, halt, error, log, pass,
          peer, solo, mode, crc_reg>>

\* what a step of the running call never touches: the other call's locals,
\* the recorded outcomes and the separate run of calculate_crc16
apart == <<peer, solo, mode, crc_reg>>

---------------------------------------------------------------------------
(* Bounds of the model.                                                    *)

\* number of record chunks an enumerated input stream is made of
MaxRecs == 3
\* number of successive conversions (the output of one is the next input)
MaxPass == 2
\* length of the byte sequences calculate_crc16 is run on by itself
MaxCrcLen == 3

---------------------------------------------------------------------------
(* Program constants.                                                      *)

MIN_FILE_LEN == 14
MIN_HEADER_SIZE == 12
PROTOCOL_VERSION == 16
PROFILE_VERSION == 2134
FILE_ID == 0
DEVICE_INFO == 23
FILE_CREATOR == 49
ACTIVITY == 4
GARMIN == 1
EDGE830 == 3122
HEX_DUMP_LEN == 16
MIN_CRC_LEN == 16

\* b'.FIT'
FIT_SIGNATURE == <<46, 70, 73, 84>>

---------------------------------------------------------------------------
(* Bytes and fixed-width integers.                                         *)

\* data[i] for a Python offset i
At(d, i) == d[i + 1]

\* data[a:b] with 0 <= a <= b <= len(data)
Slice(d, a, b) == SubSeq(d, a + 1, b)

\* struct.unpack('<H', data[i:i+2])[0]
U16(d, i) == d[i + 1] + 256 * d[i + 2]

\* struct.unpack('<I', data[i:i+4])[0], as two 16-bit limbs
U32(d, i) == [lo |-> d[i + 1] + 256 * d[i + 2], hi |-> d[i + 3] + 256 * d[i + 4]]

\* w + n for a limb pair w and a small n >= 0 (unbounded: hi may pass 65535)
WideAdd(w, n) ==
    LET s == w.lo + n IN [lo |-> s % 65536, hi |-> w.hi + (s \div 65536)]

\* FitsU32 with no upper limit: every sum is taken as packable
FitsU32_NoLimit(w) == w.hi >= 0

\* 0 <= w <= 4294967295, the range struct's 'I' format accepts
FitsU32(w) == w.hi < 65536

\* min(a + w, m) for small a, m >= 0
MinWide(a, w, m) ==
    LET s == WideAdd(w, a) IN IF s.hi > 0 \/ s.lo > m THEN m ELSE s.lo

\* struct.pack('<H', v) for 0 <= v <= 65535
Pack16(v) == <<v % 256, (v \div 256) % 256>>

\* struct.pack('<I', w) for a limb pair w with FitsU32(w)
Pack32(w) == Pack16(w.lo) \o Pack16(w.hi)

\* data[i:i+len(bs)] = bs, an in-place overwrite (struct.pack_into, data[i] = b)
Poke(d, i, bs) ==
    [k \in 1..Len(d) |-> IF k > i /\ k <= i + Len(bs) THEN bs[k - i] ELSE d[k]]

\* data[i:i] = bs, a splice that grows the buffer
Splice(d, i, bs) == SubSeq(d, 1, i) \o bs \o SubSeq(d, i + 1, Len(d))

---------------------------------------------------------------------------
(* calculate_crc16                                                         *)

crc_table ==
    <<0, 52225, 55297, 5120, 61441, 15360, 10240, 58369,
      40961, 27648, 30720, 46081, 20480, 39937, 34817, 17408>>

\* a ^ b on 4-bit values, bit by bit
XorBits(a, b) ==
    ((a + b) % 2)
    + 2 * (((a \div 2) + (b \div 2)) % 2)
    + 4 * (((a \div 4) + (b \div 4)) % 2)
    + 8 * (((a \div 8) + (b \div 8)) % 2)

XorNibble == [a \in 0..15 |-> [b \in 0..15 |-> XorBits(a, b)]]

\* a ^ b on 8-bit values
XorByte ==
    [a \in 0..255 |-> [b \in 0..255 |->
        XorNibble[a % 16][b % 16] + 16 * XorNibble[a \div 16][b \div 16]]]

\* a ^ b on 16-bit values.  (The steps of the CRC are written as functions:
\* a function's arguments are values, computed once, as the operands of a
\* Python expression are.)
XorWord ==
    [a \in Nat, b \in Nat |->
        XorByte[a % 256][b % 256] + 256 * XorByte[a \div 256][b \div 256]]

Xor16(a, b) == XorWord[a, b]

\* one 4-bit update step: tmp = crc_table[crc & 0xF]; crc = (crc >> 4) & 0x0FFF;
\* crc = crc ^ tmp ^ crc_table[nibble]
CrcUpdate ==
    [crc \in Nat, nibble \in Nat |->
        Xor16(Xor16((crc \div 16) % 4096, crc_table[(crc % 16) + 1]),
              crc_table[nibble + 1])]

CrcStep(crc, nibble) == CrcUpdate[crc, nibble]

\* both steps for one byte: the low nibble (byte & 0xF), then the high nibble
\* ((byte >> 4) & 0xF)
CrcBoth ==
    [crc \in Nat, byte \in Nat |->
        CrcStep(CrcStep(crc, byte % 16), (byte \div 16) % 16)]

CrcByte(crc, byte) == CrcBoth[crc, byte]

\* calculate_crc16(data[:n]): crc = 0, then for byte in data
calculate_crc16(d, n) ==
    LET loop[k \in Nat, crc \in Nat] ==
            IF k > n THEN crc ELSE loop[k + 1, CrcByte(crc, d[k])]
    IN  loop[1, 0]

---------------------------------------------------------------------------
(* _modify_manufacturer_binary: the header                                 *)

\* HeaderError without the test of header_size
HeaderError_NoSizeTest(d) ==
    IF Len(d) < MIN_FILE_LEN THEN "Invalid FIT file: too short"
    ELSE IF Slice(d, 8, 12) # FIT_SIGNATURE THEN "Invalid FIT file: missing .FIT signature"
    ELSE ""

\* the exception raised by the header validation, "" when the header passes
HeaderError(d) ==
    IF Len(d) < MIN_FILE_LEN THEN "Invalid FIT file: too short"
    ELSE IF Slice(d, 8, 12) # FIT_SIGNATURE THEN "Invalid FIT file: missing .FIT signature"
    ELSE IF At(d, 0) < MIN_HEADER_SIZE THEN "Invalid FIT file: header too short"
    ELSE ""

\* NormalizeHeader without the profile version update
NormalizeHeader_ProtocolOnly(d) ==
    IF At(d, 1) # PROTOCOL_VERSION THEN Poke(d, 1, <<PROTOCOL_VERSION>>) ELSE d

\* the two conditional header updates: protocol version, then profile version
NormalizeHeader(d) ==
    LET d1 == IF At(d, 1) # PROTOCOL_VERSION THEN Poke(d, 1, <<PROTOCOL_VERSION>>) ELSE d
    IN  IF U16(d1, 2) # PROFILE_VERSION THEN Poke(d1, 2, Pack16(PROFILE_VERSION)) ELSE d1

\* EndPos that does not leave out the two trailing bytes
EndPos_WholeBuffer(d) == MinWide(At(d, 0), U32(d, 4), Len(d))

\* end_pos = min(header_size + data_size, len(data) - 2)
EndPos(d) == MinWide(At(d, 0), U32(d, 4), Len(d) - 2)

---------------------------------------------------------------------------
(* _modify_manufacturer_binary: the records                                *)

\* IsDefinition that looks at bit 6 only
IsDefinition_Bit6Only(header_byte) == (header_byte \div 64) % 2 # 0

\* (header_byte & 0x80) == 0 and (header_byte & 0x40) != 0
IsDefinition(header_byte) ==
    (header_byte \div 128) % 2 = 0 /\ (header_byte \div 64) % 2 # 0

\* header_byte & 0x0F
LocalType(header_byte) == header_byte % 16

\* "pos + 4 >= len(data)" after the header byte at offset p was consumed
DefinitionCutShort(d, p) == (p + 1) + 4 >= Len(d)

\* the field loop of a definition: n triples from offset p, cut at the buffer end
RECURSIVE ReadFields(_, _, _)
ReadFields(d, p, n) ==
    IF n = 0 \/ p + 3 > Len(d) THEN <<>>
    ELSE <<<<At(d, p), At(d, p + 1), At(d, p + 2)>>>> \o ReadFields(d, p + 3, n - 1)

\* the definition record whose header byte is at offset p
ReadDefinitionAt(d, p) ==
    [global_msg_num |-> U16(d, p + 3),
     fields |-> ReadFields(d, p + 6, At(d, p + 5))]

\* Bind that keeps the definition a local type already has
Bind_KeepFirst(defs, t, definition) ==
    [x \in (DOMAIN defs) \cup {t} |->
        IF x \in DOMAIN defs THEN defs[x] ELSE definition]

\* local_definitions[local_msg_type] = definition
Bind(defs, t, definition) ==
    [x \in (DOMAIN defs) \cup {t} |-> IF x = t THEN definition ELSE defs[x]]

\* sum(field[1] for field in definition['fields'])
RECURSIVE MessageSize(_)
MessageSize(fields) ==
    IF fields = <<>> THEN 0 ELSE Head(fields)[2] + MessageSize(Tail(fields))

\* the hex dump of a file_id record reads data[pos + i] for i < min(size, 16):
\* an index past the buffer raises IndexError
HexDumpRaises(d, p, fields) ==
    LET n == IF MessageSize(fields) < HEX_DUMP_LEN THEN MessageSize(fields) ELSE HEX_DUMP_LEN
    IN  p + n > Len(d)

\* PatchFileIdField writing the caller's new_manufacturer (260) as manufacturer
PatchFileIdField_NewManufacturer(d, at, f) ==
    IF f[1] = 0 /\ f[2] = 1 THEN Poke(d, at, <<ACTIVITY>>)
    ELSE IF f[1] = 1 /\ f[2] = 2 THEN Poke(d, at, Pack16(260))
    ELSE IF f[1] = 2 /\ f[2] = 2 THEN Poke(d, at, Pack16(EDGE830))
    ELSE d

\* PatchFileIdField that also clears time_created
PatchFileIdField_ClearsTime(d, at, f) ==
    IF f[1] = 0 /\ f[2] = 1 THEN Poke(d, at, <<ACTIVITY>>)
    ELSE IF f[1] = 1 /\ f[2] = 2 THEN Poke(d, at, Pack16(GARMIN))
    ELSE IF f[1] = 2 /\ f[2] = 2 THEN Poke(d, at, Pack16(EDGE830))
    ELSE IF f[1] = 4 /\ f[2] = 4 THEN Poke(d, at, <<0, 0, 0, 0>>)
    ELSE d

\* the patch of one file_id field f = (number, size, type) found at offset at
PatchFileIdField(d, at, f) ==
    IF f[1] = 0 /\ f[2] = 1 THEN Poke(d, at, <<ACTIVITY>>)
    ELSE IF f[1] = 1 /\ f[2] = 2 THEN Poke(d, at, Pack16(GARMIN))
    ELSE IF f[1] = 2 /\ f[2] = 2 THEN Poke(d, at, Pack16(EDGE830))
    ELSE d

\* the file_id field that sets manufacturer_changed
IsFileIdManufacturer(f) == f[1] = 1 /\ f[2] = 2

\* the patch of one device_info field
PatchDeviceInfoField(d, at, f) ==
    IF f[1] = 2 /\ f[2] = 2 THEN Poke(d, at, Pack16(GARMIN))
    ELSE IF f[1] = 4 /\ f[2] = 2 THEN Poke(d, at, Pack16(EDGE830))
    ELSE d

\* IsDeviceInfoManufacturer that also counts the product field
IsDeviceInfoManufacturer_OrProduct(f) == f[2] = 2 /\ f[1] \in {2, 4}

\* the device_info field that sets manufacturer_changed
IsDeviceInfoManufacturer(f) == f[1] = 2 /\ f[2] = 2

\* the patch of one field of a record of global message g
PatchField(g, d, at, f) ==
    IF g = FILE_ID THEN PatchFileIdField(d, at, f) ELSE PatchDeviceInfoField(d, at, f)

IsManufacturer(g, f) ==
    IF g = FILE_ID THEN IsFileIdManufacturer(f) ELSE IsDeviceInfoManufacturer(f)

\* the field loop of a file_id or device_info record whose payload starts at
\* offset p: fields i.. of the list, field_offset = off; it breaks at the first
\* field that runs past the buffer.  Gives the buffer and whether a
\* manufacturer field was patched.
RECURSIVE PatchFields(_, _, _, _, _, _)
PatchFields(g, d, p, fields, i, off) ==
    IF i > Len(fields) \/ p + off + fields[i][2] > Len(d)
    THEN [data |-> d, changed |-> FALSE]
    ELSE LET rest == PatchFields(g, PatchField(g, d, p + off, fields[i]), p,
                                 fields, i + 1, off + fields[i][2])
         IN  [data |-> rest.data, changed |-> rest.changed \/ IsManufacturer(g, fields[i])]

---------------------------------------------------------------------------
(* _create_file_creator_message and the end of _modify_manufacturer_binary *)

\* file_creator_message without the hardware_version byte of the data record
file_creator_message_NoHardware ==
    <<71, 0, 0, 49, 0, 2,  0, 2, 132,  1, 1, 2,  7>> \o Pack16(975)

\* definition (local type 7, global 49, two fields), then the data record
file_creator_message ==
    <<71, 0, 0, 49, 0, 2,  0, 2, 132,  1, 1, 2,  7>> \o Pack16(975) \o <<255>>

\* data[insert_pos:insert_pos] = file_creator_data with insert_pos = len(data) - 2
InsertFileCreator(d) == Splice(d, Len(d) - 2, file_creator_message)

\* new_data_size = data_size + len(file_creator_data)
NewDataSize(size) == WideAdd(size, Len(file_creator_message))

\* RecalculateCrc taking the CRC over the whole buffer, trailing bytes included
RecalculateCrc_WholeBuffer(d) ==
    IF Len(d) >= MIN_CRC_LEN
    THEN Poke(d, Len(d) - 2, Pack16(calculate_crc16(d, Len(d))))
    ELSE d

\* the trailing two bytes rewritten under the guard len(data) >= 16
RecalculateCrc(d) ==
    IF Len(d) >= MIN_CRC_LEN
    THEN Poke(d, Len(d) - 2, Pack16(calculate_crc16(d, Len(d) - 2)))
    ELSE d

---------------------------------------------------------------------------
(* The inputs: FIT files put together from a header, a stream of record    *)
(* chunks and the two trailing bytes.  A chunk is read through whatever    *)
(* definition happens to be bound when the scan reaches it, so a stream    *)
(* may also be misaligned, cut short or refer to unbound local types.      *)

\* definition, local type 0, file_id: time_created, manufacturer, product, type
DefFileId == <<64, 0, 0, 0, 0, 4,  4, 4, 134,  1, 2, 132,  2, 2, 132,  0, 1, 0>>
\* definition, local type 0, file_id with no 2-byte manufacturer field
DefFileIdLite == <<64, 0, 0, 0, 0, 3,  0, 1, 0,  2, 2, 132,  1, 1, 2>>
\* definition, local type 1, device_info: device_index, manufacturer, product
DefDeviceInfo == <<65, 0, 0, 23, 0, 3,  0, 1, 2,  2, 2, 132,  4, 2, 132>>
\* definition, local type 1, file_creator with a field numbered 2 of size 2
DefFileCreator == <<65, 0, 0, 49, 0, 1,  2, 2, 132>>
\* the first three bytes of a definition, local type 0: the rest is whatever follows
DefStub == <<64, 0, 0>>
\* data, local type 0, nine payload bytes (manufacturer 32, product 0, type 0)
DataFileId == <<0,  9, 9, 9, 9,  32, 0,  0, 0,  0>>
\* data, local type 0, seven payload bytes
DataFileIdShort == <<0,  9, 9, 9, 9,  32, 0,  0>>
\* data, local type 1, five payload bytes (manufacturer 32, product 5)
DataDeviceInfo == <<1,  7,  32, 0,  5, 0>>
\* data with bits 7 and 6 set in the header byte, local type 1, two payload bytes
DataTimestamp == <<193,  7,  32>>

Chunks ==
    {DefFileId, DefFileIdLite, DefDeviceInfo, DefFileCreator, DefStub,
     DataFileId, DataFileIdShort, DataDeviceInfo, DataTimestamp}

\* the streams of at most n chunks
RECURSIVE Streams(_)
Streams(n) ==
    IF n = 0 THEN {<<>>}
    ELSE {<<>>} \cup {c \o s : c \in Chunks, s \in Streams(n - 1)}

\* definition, local type 1, file_id: type, manufacturer, product
DefFileIdOne == <<65, 0, 0, 0, 0, 3,  0, 1, 0,  1, 2, 132,  2, 2, 132>>
\* data with bits 7 and 6 set in the header byte, local type 1, five payload bytes
DataBit7 == <<193,  7,  32, 0,  5, 0>>
\* definition, local type 0, file_id: manufacturer, a 20-byte field, product
DefFileIdWide == <<64, 0, 0, 0, 0, 3,  1, 2, 132,  8, 20, 7,  2, 2, 132>>
\* definition, local type 1, device_info: device_index, product
DefDeviceInfoProduct == <<65, 0, 0, 23, 0, 2,  0, 1, 2,  4, 2, 132>>
\* data, local type 1, three payload bytes (product 5)
DataProduct == <<1,  7,  5, 0>>

\* streams outside the enumeration: a file_id record under a header byte with
\* bit 7 set, a file_id record of 24 declared bytes of which 19 are there,
\* and a device_info record with a product and no manufacturer
SpecialStreams ==
    {DefFileIdOne \o DataBit7 \o DataDeviceInfo,
     DefFileIdWide \o DataFileId \o DataFileId,
     DefDeviceInfoProduct \o DataProduct \o DataProduct}

\* the 12 or 14 header bytes
Header(header_size, protocol, profile, size, signature) ==
    <<header_size, protocol>> \o Pack16(profile) \o Pack32(size) \o signature
    \o (IF header_size = 14 THEN <<0, 0>> ELSE <<>>)

\* n as a limb pair, for 0 <= n <= 65535
Small(n) == [lo |-> n, hi |-> 0]

\* a device's own versions in a 12-byte header, the exact payload size
PlainHeader(n) == Header(12, 32, 2000, Small(n), FIT_SIGNATURE)
\* an already normalised 14-byte header, a payload size 4 short of the stream
ShortHeader(n) == Header(14, 16, 2134, Small(IF n > 4 THEN n - 4 ELSE 0), FIT_SIGNATURE)
\* a payload size 8 below 2^32
HugeHeader == Header(12, 32, 2134, [lo |-> 65528, hi |-> 65535], FIT_SIGNATURE)

\* payload sizes at the edges of the u32 range: 65535 (adding 16 carries into
\* the high half), 4294967279 (the largest that 16 can be added to) and
\* 4294967280 (the smallest that 16 cannot be added to)
EdgeSizes ==
    {[lo |-> 65535, hi |-> 0], [lo |-> 65519, hi |-> 65535], [lo |-> 65520, hi |-> 65535]}

\* a stream the block is inserted behind and one that has a file_creator
EdgeStreams == {DefFileId \o DataFileId, DefFileCreator \o DefFileId \o DataFileId}

\* a normalised 12-byte header that declares the payload size w
EdgeHeader(w) == Header(12, 16, 2134, w, FIT_SIGNATURE)

\* with the CRC of the bytes before it
WithCrc(b) == b \o Pack16(calculate_crc16(b, Len(b)))

\* the files convert_fit accepts the header of: with a correct trailing CRC
\* behind the plain header, a stale one behind the others
WellHeaded ==
    {WithCrc(b) : b \in {PlainHeader(Len(s)) \o s : s \in Streams(MaxRecs)}}
    \cup {ShortHeader(Len(s)) \o s \o <<0, 0>> : s \in Streams(MaxRecs)}
    \cup {HugeHeader \o s \o <<0, 0>> : s \in Streams(MaxRecs - 1)}
    \cup {WithCrc(b) : b \in {PlainHeader(Len(s)) \o s : s \in SpecialStreams}}
    \cup {WithCrc(EdgeHeader(w) \o s) : w \in EdgeSizes, s \in EdgeStreams}

\* the files the validation refuses: empty, shorter than 14 bytes, a wrong
\* signature, a header_size below 12
Malformed ==
    {<<>>, Header(12, 32, 2000, Small(0), FIT_SIGNATURE) \o <<0>>}
    \cup {Header(12, 32, 2000, Small(Len(c)), <<46, 70, 73, 83>>) \o c \o <<0, 0>> : c \in Chunks}
    \cup {Header(11, 32, 2000, Small(Len(c)), FIT_SIGNATURE) \o c \o <<0, 0>> : c \in Chunks}

Inputs == WellHeaded \cup Malformed

---------------------------------------------------------------------------
(* convert_fit, one call after another                                     *)

NoDefinitions == <<>>

\* the locals of a call before its scan starts
Fresh ==
    /\ pos = 0
    /\ end_pos = 0
    /\ data_size = Small(0)
    /\ local_definitions = NoDefinitions
    /\ manufacturer_changed = FALSE
    /\ file_creator_found = FALSE
    /\ halt = "none"
    /\ error = ""
    /\ log = <<>>

\* no second call
NoCall == [pc |-> "none"]

Init ==
    /\ input \in Inputs
    /\ data = <<>>
    /\ pc = "call"
    /\ pass = 1
    /\ Fresh
    /\ peer = NoCall
    /\ solo = {}
    /\ mode = "single"
    /\ crc_reg = 0

\* an exception leaves _modify_manufacturer_binary: convert_fit wraps it in
\* FitConverterError and no bytes are returned
Raise(message) ==
    /\ pc' = "raised"
    /\ error' = message
    /\ data' = <<>>

\* convert_fit refuses empty input; the header validation refuses the rest
RejectInput ==
    /\ pc = "call"
    /\ input = <<>> \/ HeaderError(input) # ""
    /\ Raise(IF input = <<>> THEN "fit_data cannot be empty" ELSE HeaderError(input))
    /\ UNCHANGED <<input, pos, end_pos, data_size, local_definitions,
                   manufacturer_changed, file_creator_found, halt, log, pass, apart>>

\* the header passes: the copy is normalised and the scan set up
AcceptHeader ==
    /\ pc = "call"
    /\ input # <<>>
    /\ HeaderError(input) = ""
    /\ data' = NormalizeHeader(input)
    /\ data_size' = U32(input, 4)
    /\ pos' = At(input, 0)
    /\ end_pos' = EndPos(input)
    /\ local_definitions' = NoDefinitions
    /\ manufacturer_changed' = FALSE
    /\ file_creator_found' = FALSE
    /\ pc' = "scan"
    /\ UNCHANGED <<input, halt, error, log, pass, apart>>

\* while pos < end_pos and pos < len(data)
InLoop == pc = "scan" /\ pos < end_pos /\ pos < Len(data)

header_byte == At(data, pos)

\* the loop condition fails
ScanEnd ==
    /\ pc = "scan"
    /\ ~InLoop
    /\ pc' = "finish"
    /\ halt' = "end"
    /\ UNCHANGED <<input, data, pos, end_pos, data_size, local_definitions,
                   manufacturer_changed, file_creator_found, error, log, pass, apart>>

\* a definition header with fewer than five bytes behind it: break
DefinitionTruncated ==
    /\ InLoop
    /\ IsDefinition(header_byte)
    /\ DefinitionCutShort(data, pos)
    /\ pos' = pos + 1
    /\ pc' = "finish"
    /\ halt' = "truncated"
    /\ UNCHANGED <<input, data, end_pos, data_size, local_definitions,
                   manufacturer_changed, file_creator_found, error, log, pass, apart>>

\* a definition record: read, bound to its local type, noted when file_creator
ReadDefinition ==
    /\ InLoop
    /\ IsDefinition(header_byte)
    /\ ~DefinitionCutShort(data, pos)
    /\ LET definition == ReadDefinitionAt(data, pos)
       IN  /\ local_definitions' = Bind(local_definitions, LocalType(header_byte), definition)
           /\ pos' = pos + 6 + 3 * Len(definition.fields)
           /\ file_creator_found' =
                  (file_creator_found \/ definition.global_msg_num = FILE_CREATOR)
           /\ log' = Append(log, [kind |-> "definition", at |-> pos,
                                  local |-> LocalType(header_byte),
                                  global |-> definition.global_msg_num,
                                  fields |-> definition.fields])
    /\ UNCHANGED <<input, data, pc, end_pos, data_size, manufacturer_changed,
                   halt, error, pass, apart>>

\* the definition bound to the local type of the data record at pos
Bound == LocalType(header_byte) \in DOMAIN local_definitions
definition_here == local_definitions[LocalType(header_byte)]

\* Advance that skips one byte per field instead of the field's size
Advance_ByFieldCount(definition) ==
    /\ pos' = pos + 1 + Len(definition.fields)
    /\ log' = Append(log, [kind |-> "data", at |-> pos,
                           local |-> LocalType(header_byte),
                           global |-> definition.global_msg_num,
                           fields |-> definition.fields])

\* Advance that leaves out the header byte
Advance_FieldsOnly(definition) ==
    /\ pos' = pos + MessageSize(definition.fields)
    /\ log' = Append(log, [kind |-> "data", at |-> pos,
                           local |-> LocalType(header_byte),
                           global |-> definition.global_msg_num,
                           fields |-> definition.fields])

\* what every processed data record does to pos and the log
Advance(definition) ==
    /\ pos' = pos + 1 + MessageSize(definition.fields)
    /\ log' = Append(log, [kind |-> "data", at |-> pos,
                           local |-> LocalType(header_byte),
                           global |-> definition.global_msg_num,
                           fields |-> definition.fields])

\* a file_id or device_info record: the field loop, then the skip
PatchRecord ==
    LET patched == PatchFields(definition_here.global_msg_num, data, pos + 1,
                               definition_here.fields, 1, 0)
    IN  /\ data' = patched.data
        /\ manufacturer_changed' = (manufacturer_changed \/ patched.changed)
        /\ Advance(definition_here)
        /\ UNCHANGED <<input, pc, end_pos, data_size, local_definitions,
                       file_creator_found, halt, error, pass, apart>>

\* a file_id data record whose hex dump stays inside the buffer
DataFileIdRecord ==
    /\ InLoop
    /\ ~IsDefinition(header_byte)
    /\ Bound
    /\ definition_here.global_msg_num = FILE_ID
    /\ ~HexDumpRaises(data, pos + 1, definition_here.fields)
    /\ PatchRecord

\* a file_id data record whose hex dump reads past the buffer: IndexError
DataFileIdRaises ==
    /\ InLoop
    /\ ~IsDefinition(header_byte)
    /\ Bound
    /\ definition_here.global_msg_num = FILE_ID
    /\ HexDumpRaises(data, pos + 1, definition_here.fields)
    /\ Raise("bytearray index out of range")
    /\ pos' = pos + 1
    /\ UNCHANGED <<input, end_pos, data_size, local_definitions,
                   manufacturer_changed, file_creator_found, halt, log, pass, apart>>

\* a device_info data record
DataDeviceInfoRecord ==
    /\ InLoop
    /\ ~IsDefinition(header_byte)
    /\ Bound
    /\ definition_here.global_msg_num = DEVICE_INFO
    /\ PatchRecord

\* a data record of any other global message: skipped
DataOtherRecord ==
    /\ InLoop
    /\ ~IsDefinition(header_byte)
    /\ Bound
    /\ definition_here.global_msg_num \notin {FILE_ID, DEVICE_INFO}
    /\ Advance(definition_here)
    /\ UNCHANGED <<input, data, pc, end_pos, data_size, local_definitions,
                   manufacturer_changed, file_creator_found, halt, error, pass, apart>>

\* DataUnbound skipping the header byte and scanning on
DataUnbound_ScansOn ==
    /\ InLoop
    /\ ~IsDefinition(header_byte)
    /\ ~Bound
    /\ pos' = pos + 1
    /\ UNCHANGED <<input, data, pc, end_pos, data_size, local_definitions,
                   manufacturer_changed, file_creator_found, halt, error, log, pass, apart>>

\* a data record whose local type has no definition: break
DataUnbound ==
    /\ InLoop
    /\ ~IsDefinition(header_byte)
    /\ ~Bound
    /\ pos' = pos + 1
    /\ pc' = "finish"
    /\ halt' = "unknown"
    /\ UNCHANGED <<input, data, end_pos, data_size, local_definitions,
                   manufacturer_changed, file_creator_found, error, log, pass, apart>>

\* manufacturer_changed is false: bytes(data) is returned as it is
ReturnUnchanged ==
    /\ pc = "finish"
    /\ ~manufacturer_changed
    /\ pc' = "done"
    /\ UNCHANGED <<input, data, pos, end_pos, data_size, local_definitions,
                   manufacturer_changed, file_creator_found, halt, error, log, pass, apart>>

\* no file_creator definition was seen: the block is spliced in front of the
\* trailing two bytes and the header's payload size rewritten
AddFileCreator ==
    /\ pc = "finish"
    /\ manufacturer_changed
    /\ ~file_creator_found
    /\ FitsU32(NewDataSize(data_size))
    /\ data' = Poke(InsertFileCreator(data), 4, Pack32(NewDataSize(data_size)))
    /\ pc' = "crc"
    /\ UNCHANGED <<input, pos, end_pos, data_size, local_definitions,
                   manufacturer_changed, file_creator_found, halt, error, log, pass, apart>>

\* the new payload size does not fit '<I': struct.error
AddFileCreatorRaises ==
    /\ pc = "finish"
    /\ manufacturer_changed
    /\ ~file_creator_found
    /\ ~FitsU32(NewDataSize(data_size))
    /\ Raise("'I' format requires 0 <= number <= 4294967295")
    /\ UNCHANGED <<input, pos, end_pos, data_size, local_definitions,
                   manufacturer_changed, file_creator_found, halt, log, pass, apart>>

\* a file_creator definition was seen: nothing is added
KeepFileCreator ==
    /\ pc = "finish"
    /\ manufacturer_changed
    /\ file_creator_found
    /\ pc' = "crc"
    /\ UNCHANGED <<input, data, pos, end_pos, data_size, local_definitions,
                   manufacturer_changed, file_creator_found, halt, error, log, pass, apart>>

\* the CRC is recalculated and bytes(data) returned
UpdateCrc ==
    /\ pc = "crc"
    /\ data' = RecalculateCrc(data)
    /\ pc' = "done"
    /\ UNCHANGED <<input, pos, end_pos, data_size, local_definitions,
                   manufacturer_changed, file_creator_found, halt, error, log, pass, apart>>

\* the caller converts the returned bytes again
Reconvert ==
    /\ pc = "done"
    /\ pass < MaxPass
    /\ input' = data
    /\ data' = <<>>
    /\ pc' = "call"
    /\ pass' = pass + 1
    /\ pos' = 0
    /\ end_pos' = 0
    /\ data_size' = Small(0)
    /\ local_definitions' = NoDefinitions
    /\ manufacturer_changed' = FALSE
    /\ file_creator_found' = FALSE
    /\ halt' = "none"
    /\ error' = ""
    /\ log' = <<>>
    /\ UNCHANGED apart

Next ==
    \/ RejectInput
    \/ AcceptHeader
    \/ ScanEnd
    \/ DefinitionTruncated
    \/ ReadDefinition
    \/ DataFileIdRecord
    \/ DataFileIdRaises
    \/ DataDeviceInfoRecord
    \/ DataOtherRecord
    \/ DataUnbound
    \/ ReturnUnchanged
    \/ AddFileCreator
    \/ AddFileCreatorRaises
    \/ KeepFileCreator
    \/ UpdateCrc
    \/ Reconvert

Spec == Init /\ [][Next]_vars

---------------------------------------------------------------------------
(* Two calls of convert_fit on two threads.  A call keeps its state in the *)
(* local variables of _modify_manufacturer_binary and in data, its own     *)
(* copy of fit_data; the class has no attributes.  One thread runs at a    *)
(* time and the threads may be switched between any two steps: the running *)
(* call's locals are the variables above, the waiting call's are in peer.  *)
(* Each of the two inputs is first converted on its own, and the outcome   *)
(* noted in solo, before the two calls are run side by side.               *)

\* the locals of the running call
Locals ==
    [input |-> input, data |-> data, pc |-> pc, pos |-> pos, end_pos |-> end_pos,
     data_size |-> data_size, local_definitions |-> local_definitions,
     manufacturer_changed |-> manufacturer_changed,
     file_creator_found |-> file_creator_found,
     halt |-> halt, error |-> error, log |-> log]

\* a call of convert_fit(x) that has not taken a step
NewCall(x) ==
    [input |-> x, data |-> <<>>, pc |-> "call", pos |-> 0, end_pos |-> 0,
     data_size |-> Small(0), local_definitions |-> NoDefinitions,
     manufacturer_changed |-> FALSE, file_creator_found |-> FALSE,
     halt |-> "none", error |-> "", log |-> <<>>]

\* the thread of call c is the running one from now on
Resume(c) ==
    /\ input' = c.input
    /\ data' = c.data
    /\ pc' = c.pc
    /\ pos' = c.pos
    /\ end_pos' = c.end_pos
    /\ data_size' = c.data_size
    /\ local_definitions' = c.local_definitions
    /\ manufacturer_changed' = c.manufacturer_changed
    /\ file_creator_found' = c.file_creator_found
    /\ halt' = c.halt
    /\ error' = c.error
    /\ log' = c.log

\* the call returned or raised
Finished(c) == c.pc \in {"done", "raised"}

\* what a finished call hands to its caller
Outcome(c) == [input |-> c.input, pc |-> c.pc, data |-> c.data, error |-> c.error]

\* the record streams of the files converted side by side
PairStreams ==
    {DefFileId \o DataFileId,
     DataFileId,
     DefDeviceInfo \o DataDeviceInfo,
     DefFileCreator \o DefFileId \o DataFileId,
     DefFileCreator \o DataDeviceInfo,
     DefFileId \o DataFileIdShort \o DataTimestamp,
     DefStub}

PairInputs ==
    {WithCrc(PlainHeader(Len(s)) \o s) : s \in PairStreams}
    \cup {HugeHeader \o DefFileId \o DataFileId \o <<0, 0>>, <<>>}

PairInit ==
    /\ input \in PairInputs
    /\ data = <<>>
    /\ pc = "call"
    /\ pass = 1
    /\ Fresh
    /\ peer \in {NewCall(x) : x \in PairInputs}
    /\ solo = {}
    /\ mode = "solo"
    /\ crc_reg = 0

\* the first call, run on its own, is over: the second runs on its own
SoloReturn ==
    /\ mode = "solo"
    /\ Finished(Locals)
    /\ ~Finished(peer)
    /\ solo' = solo \cup {Outcome(Locals)}
    /\ Resume(peer)
    /\ peer' = Locals
    /\ UNCHANGED <<pass, mode, crc_reg>>

\* both calls ran on their own: both are made again, now on two threads
StartPair ==
    /\ mode = "solo"
    /\ Finished(Locals)
    /\ Finished(peer)
    /\ solo' = solo \cup {Outcome(Locals)}
    /\ Resume(NewCall(peer.input))
    /\ peer' = NewCall(input)
    /\ mode' = "paired"
    /\ UNCHANGED <<pass, crc_reg>>

\* Switch with local_definitions kept in one place for both calls
Switch_SharedDefinitions ==
    /\ mode = "paired"
    /\ ~Finished(peer)
    /\ Resume([peer EXCEPT !.local_definitions = local_definitions])
    /\ peer' = Locals
    /\ UNCHANGED <<pass, solo, mode, crc_reg>>

\* the interpreter switches to the other thread
Switch ==
    /\ mode = "paired"
    /\ ~Finished(peer)
    /\ Resume(peer)
    /\ peer' = Locals
    /\ UNCHANGED <<pass, solo, mode, crc_reg>>

PairNext ==
    \/ RejectInput
    \/ AcceptHeader
    \/ ScanEnd
    \/ DefinitionTruncated
    \/ ReadDefinition
    \/ DataFileIdRecord
    \/ DataFileIdRaises
    \/ DataDeviceInfoRecord
    \/ DataOtherRecord
    \/ DataUnbound
    \/ ReturnUnchanged
    \/ AddFileCreator
    \/ AddFileCreatorRaises
    \/ KeepFileCreator
    \/ UpdateCrc
    \/ SoloReturn
    \/ StartPair
    \/ Switch

SpecPair == PairInit /\ [][PairNext]_vars

---------------------------------------------------------------------------
(* One call after another on a few files, under the assumption that a call *)
(* which can take a step takes it: convert_fit is sequential code without  *)
(* waits, locks or input.                                                  *)

\* the streams of SpecPair and the special ones, and one that binds a
\* definition without fields and reads data records through it
LiveStreams ==
    PairStreams \cup SpecialStreams \cup {DefStub \o DefFileId \o DataFileId}

LiveInputs ==
    {WithCrc(PlainHeader(Len(s)) \o s) : s \in LiveStreams}
    \cup {HugeHeader \o DefFileId \o DataFileId \o <<0, 0>>, <<>>}

LiveInit ==
    /\ input \in LiveInputs
    /\ data = <<>>
    /\ pc = "call"
    /\ pass = 1
    /\ Fresh
    /\ peer = NoCall
    /\ solo = {}
    /\ mode = "single"
    /\ crc_reg = 0

SpecLive == LiveInit /\ [][Next]_vars /\ WF_vars(Next)

---------------------------------------------------------------------------
(* calculate_crc16 on its own, one 4-bit update per step: input is its     *)
(* argument, pos the index of the byte the for loop is at, crc_reg its     *)
(* variable crc.                                                           *)

\* the bytes the sequences are made of
CrcBytes == {0, 1, 46, 132, 255}

\* the byte sequences of length n over CrcBytes
RECURSIVE ByteSeqs(_)
ByteSeqs(n) ==
    IF n = 0 THEN {<<>>}
    ELSE {<<b>> \o s : b \in CrcBytes, s \in ByteSeqs(n - 1)}

CrcInputs == UNION {ByteSeqs(n) : n \in 0..MaxCrcLen}

\* crc = 0 in front of the loop
CrcInit ==
    /\ input \in CrcInputs
    /\ crc_reg = 0
    /\ pos = 0
    /\ pc = "crc_for"
    /\ mode = "crc16"
    /\ data = <<>>
    /\ end_pos = 0
    /\ data_size = Small(0)
    /\ local_definitions = NoDefinitions
    /\ manufacturer_changed = FALSE
    /\ file_creator_found = FALSE
    /\ halt = "none"
    /\ error = ""
    /\ log = <<>>
    /\ pass = 1
    /\ peer = NoCall
    /\ solo = {}

\* what calculate_crc16 has no access to
CrcFrame ==
    UNCHANGED <<input, data, end_pos, data_size, local_definitions,
                manufacturer_changed, file_creator_found, halt, error, log, pass,
                peer, solo, mode>>

\* CrcLowNibble taking the high nibble of the byte
CrcLowNibble_HighFirst ==
    /\ pc = "crc_for"
    /\ pos < Len(input)
    /\ crc_reg' = CrcStep(crc_reg, (At(input, pos) \div 16) % 16)
    /\ pc' = "crc_high"
    /\ UNCHANGED pos
    /\ CrcFrame

\* the first update of a byte: with byte & 0xF
CrcLowNibble ==
    /\ pc = "crc_for"
    /\ pos < Len(input)
    /\ crc_reg' = CrcStep(crc_reg, At(input, pos) % 16)
    /\ pc' = "crc_high"
    /\ UNCHANGED pos
    /\ CrcFrame

\* the second update of a byte: with (byte >> 4) & 0xF; then the next byte
CrcHighNibble ==
    /\ pc = "crc_high"
    /\ crc_reg' = CrcStep(crc_reg, (At(input, pos) \div 16) % 16)
    /\ pos' = pos + 1
    /\ pc' = "crc_for"
    /\ CrcFrame

\* the loop is over: return crc
CrcReturn ==
    /\ pc = "crc_for"
    /\ pos = Len(input)
    /\ pc' = "crc_return"
    /\ UNCHANGED <<pos, crc_reg>>
    /\ CrcFrame

CrcNext == CrcLowNibble \/ CrcHighNibble \/ CrcReturn

SpecCrc == CrcInit /\ [][CrcNext]_vars

---------------------------------------------------------------------------
(* The claims.  The output of a call is data in a state with pc = "done";  *)
(* a call that raised has pc = "raised" and returns nothing.               *)

Returned == pc = "done"

\* the input passed convert_fit's own test and the header validation
PassesValidation ==
    /\ input # <<>>
    /\ Len(input) >= 14
    /\ Slice(input, 8, 12) = <<46, 70, 73, 84>>
    /\ At(input, 0) >= 12

\* field_offset of the i-th field: the sizes of the fields declared before it
RECURSIVE OffsetOf(_, _)
OffsetOf(fields, i) == IF i = 1 THEN 0 ELSE OffsetOf(fields, i - 1) + fields[i - 1][2]

\* the file_id data records the scan read
FileIdRecords == {k \in 1..Len(log) : log[k].kind = "data" /\ log[k].global = 0}

\* the i-th field of a logged file_id record reads 4 / 1 / 3122 in the output
\* when it is a type, manufacturer or product field
ReadsPatched(r, i) ==
    LET at == r.at + 1 + OffsetOf(r.fields, i)
        f == r.fields[i]
    IN  /\ (f[1] = 0 /\ f[2] = 1) => (at + 1 <= Len(data) /\ At(data, at) = 4)
        /\ (f[1] = 1 /\ f[2] = 2) => (at + 2 <= Len(data) /\ U16(data, at) = 1)
        /\ (f[1] = 2 /\ f[2] = 2) => (at + 2 <= Len(data) /\ U16(data, at) = 3122)

\* the record ends at or before the two trailing bytes of the input
BeforeTrailer(r) == r.at + 1 + MessageSize(r.fields) <= Len(input) - 2

\* C1 as stated: in the returned output every file_id data record read
\* through a file_id definition has type 4, manufacturer 1 and product 3122
\* at the cumulative offsets of those fields.
C1_AsStated ==
    Returned =>
        \A k \in FileIdRecords : \A i \in 1..Len(log[k].fields) : ReadsPatched(log[k], i)

\* C1 amended: the same for every file_id data record the scan processed
\* that ends at or before the two trailing bytes of the input.
C1_FileIdPatched ==
    Returned =>
        \A k \in FileIdRecords :
            BeforeTrailer(log[k]) =>
                \A i \in 1..Len(log[k].fields) : ReadsPatched(log[k], i)

\* a returned output with a processed file_id record in front of the trailer
\* whose type, manufacturer and product bytes all differ from the input's
C1_Witness ==
    /\ Returned
    /\ \E k \in FileIdRecords :
          LET r == log[k] IN
          /\ BeforeTrailer(r)
          /\ \E i, j, m \in 1..Len(r.fields) :
                /\ r.fields[i][1] = 0 /\ r.fields[i][2] = 1
                /\ r.fields[j][1] = 1 /\ r.fields[j][2] = 2
                /\ r.fields[m][1] = 2 /\ r.fields[m][2] = 2
                /\ At(input, r.at + 1 + OffsetOf(r.fields, i)) # 4
                /\ U16(input, r.at + 1 + OffsetOf(r.fields, j)) # 1
                /\ U16(input, r.at + 1 + OffsetOf(r.fields, m)) # 3122

\* C2 as stated: converting a returned output again returns the same bytes.
C2_Idempotent ==
    (pass >= 2 /\ pc \in {"done", "raised"}) => (pc = "done" /\ data = input)

\* C3 as stated: the CRC-16 over output[0, len - 2) equals the trailing two
\* bytes of every returned output.
C3_ChecksumIntegrity ==
    Returned => calculate_crc16(data, Len(data) - 2) = U16(data, Len(data) - 2)

\* C4: once the header passed validation the buffer, and so every returned
\* output, has protocol_version 16 and profile_version 2134, wherever the
\* scan halts.
C4_HeaderNormalized ==
    pc \in {"scan", "finish", "crc", "done"} => (At(data, 1) = 16 /\ U16(data, 2) = 2134)

\* a returned output whose input had other versions and whose scan halted at
\* an unbound local type
C4_Witness ==
    /\ Returned
    /\ At(input, 1) # 16
    /\ U16(input, 2) # 2134
    /\ halt = "unknown"

\* C5: a returned output is 16 bytes longer than the input, with payload_size
\* 16 larger, when a manufacturer field was patched and no global-49
\* definition was seen; otherwise its length and payload_size are the input's.
C5_FileCreatorGrowth ==
    Returned =>
        IF manufacturer_changed /\ ~file_creator_found
        THEN /\ Len(data) = Len(input) + 16
             /\ U32(data, 4) = WideAdd(U32(input, 4), 16)
        ELSE /\ Len(data) = Len(input)
             /\ U32(data, 4) = U32(input, 4)

\* a returned output that grew, with the block in front of the trailing bytes
C5_Witness ==
    /\ Returned
    /\ manufacturer_changed
    /\ ~file_creator_found
    /\ Len(data) = Len(input) + 16
    /\ At(data, Len(input) - 2) = 71

\* C6: an input that is shorter than 14 bytes, lacks '.FIT' at offset 8 or has
\* header_size below 12 only ever raises: no buffer is returned and no scan,
\* patch, insertion or checksum step has run.
C6_MalformedFails ==
    ~PassesValidation =>
        /\ pc \in {"call", "raised"}
        /\ data = <<>>
        /\ log = <<>>
        /\ pos = 0
        /\ ~manufacturer_changed
        /\ halt = "none"
        /\ pc = "raised" => error # ""

\* a 14-byte or longer input with the signature in place and header_size
\* below 12 has been refused
C6_Witness ==
    /\ pc = "raised"
    /\ Len(input) >= 14
    /\ Slice(input, 8, 12) = <<46, 70, 73, 84>>
    /\ At(input, 0) < 12

\* C7 as stated: when no manufacturer field was patched the returned output
\* has the input's length and the input's bytes from offset 4 on.
C7_NoOpWithoutManufacturer ==
    (Returned /\ ~manufacturer_changed) =>
        /\ Len(data) = Len(input)
        /\ \A i \in 4..(Len(input) - 1) : At(data, i) = At(input, i)

\* C8 as stated: for an input that passed validation nothing raises while
\* the records are scanned (an exception can only come once the scan is over).
C8_ScanNeverRaises ==
    (PassesValidation /\ pc = "raised") => halt # "none"

\* the record at pos is a data record whose local type is unbound
AtUnboundData == InLoop /\ ~IsDefinition(header_byte) /\ ~Bound

\* the 16 bytes in front of the trailing two are the file_creator block
EndsWithCreatorBlock ==
    /\ Len(data) = Len(input) + 16
    /\ Slice(data, Len(input) - 2, Len(input) + 14)
         = <<71, 0, 0, 49, 0, 2, 0, 2, 132, 1, 1, 2, 7, 207, 3, 255>>

\* C9: a data record with an unbound local type ends the scan in that step,
\* with no exception, no byte written and both flags as they were; from then
\* on no byte from that record's header up to the trailing two bytes differs
\* from the input, bytes 8.. in front of the trailer are no longer written,
\* and the output carries the file_creator block and the new CRC exactly as
\* the flags say (neither when manufacturer_changed is false).
C9_UnboundHalts ==
    /\ [][AtUnboundData =>
            /\ pc' = "finish"
            /\ halt' = "unknown"
            /\ error' = ""
            /\ data' = data
            /\ log' = log
            /\ manufacturer_changed' = manufacturer_changed
            /\ file_creator_found' = file_creator_found]_vars
    /\ [][(halt = "unknown" /\ pc' \in {"crc", "done"}) =>
            /\ halt' = "unknown"
            /\ manufacturer_changed' = manufacturer_changed
            /\ file_creator_found' = file_creator_found
            /\ \A i \in 8..(Len(input) - 3) : At(data', i) = At(data, i)]_vars
    /\ [](halt = "unknown" =>
            /\ pc \in {"finish", "crc", "done", "raised"}
            /\ pc # "raised" =>
                  \A i \in (pos - 1)..(Len(input) - 3) : At(data, i) = At(input, i)
            /\ pc = "done" =>
                  IF manufacturer_changed
                  THEN /\ file_creator_found \/ EndsWithCreatorBlock
                       /\ file_creator_found => Len(data) = Len(input)
                       /\ calculate_crc16(data, Len(data) - 2) = U16(data, Len(data) - 2)
                  ELSE /\ Len(data) = Len(input)
                       /\ U16(data, Len(data) - 2) = U16(input, Len(input) - 2))

\* a returned output of a scan that patched a manufacturer field and then
\* halted at an unbound local type, in front of the end of the stream
C9_Witness ==
    /\ Returned
    /\ halt = "unknown"
    /\ manufacturer_changed
    /\ pos < end_pos

\* C10: a returned output of a call with manufacturer_changed ends in the
\* CRC-16 of the bytes before, with or without an inserted block, and no
\* state with manufacturer_changed has a buffer shorter than 16 bytes.
C10_CrcRewritten ==
    /\ (Returned /\ manufacturer_changed) =>
           calculate_crc16(data, Len(data) - 2) = U16(data, Len(data) - 2)
    /\ (manufacturer_changed /\ pc # "raised") => Len(data) >= 16

\* a returned output with manufacturer_changed and no inserted block whose
\* trailing bytes differ from the input's
C10_Witness ==
    /\ Returned
    /\ manufacturer_changed
    /\ file_creator_found
    /\ Len(data) = Len(input)
    /\ U16(data, Len(data) - 2) # U16(input, Len(input) - 2)

\* the definition records logged before entry k for the local type of entry k
DefinitionsBefore(k) ==
    {j \in 1..(k - 1) : log[j].kind = "definition" /\ log[j].local = log[k].local}

\* the last of them
LastDefinitionBefore(k) ==
    CHOOSE j \in DefinitionsBefore(k) : \A i \in DefinitionsBefore(k) : i <= j

\* C12: every data record the scan processed was read through the global
\* message number and the field list (and so the record length) of the
\* latest definition record in front of it that has its local message type,
\* whatever was bound to that type earlier or to other types in between.
C12_LastWriterWins ==
    \A k \in 1..Len(log) :
        log[k].kind = "data" =>
            /\ DefinitionsBefore(k) # {}
            /\ log[k].global = log[LastDefinitionBefore(k)].global
            /\ log[k].fields = log[LastDefinitionBefore(k)].fields

\* a returned call with a processed data record whose local type was defined
\* twice in front of it, with different global message numbers and field lists
C12_Witness ==
    \E k \in 1..Len(log) :
        /\ log[k].kind = "data"
        /\ \E i, j \in DefinitionsBefore(k) :
              /\ i < j
              /\ log[i].fields # log[j].fields
              /\ log[i].global # log[j].global
        /\ pc = "done"

\* logged definition record k declared more field triples than were read
PartialDefinition(k) ==
    /\ log[k].kind = "definition"
    /\ Len(log[k].fields) < At(input, log[k].at + 5)

\* C13: a definition record that declares more field triples than the buffer
\* holds is the last record the scan processes: it is bound with the triples
\* that were read, the loop condition is false right after it, and the scan
\* is left through the end of the loop with nothing logged behind it.  A
\* definition header byte with fewer than five bytes behind it is never read
\* or bound: the scan halts on it.
C13_TruncatedDefinitionHalts ==
    /\ \A k \in 1..Len(log) :
          PartialDefinition(k) =>
              /\ k = Len(log)
              /\ ~InLoop
              /\ halt \in {"none", "end"}
              /\ LocalType(At(input, log[k].at)) \in DOMAIN local_definitions
              /\ local_definitions[LocalType(At(input, log[k].at))].fields = log[k].fields
    /\ \A k \in 1..Len(log) :
          log[k].kind = "definition" => Len(input) - (log[k].at + 1) >= 5
    /\ halt = "truncated" =>
          /\ pc \in {"finish", "crc", "done", "raised"}
          /\ IsDefinition(At(input, pos - 1))
          /\ Len(input) - pos < 5
          /\ \A k \in 1..Len(log) : log[k].at < pos - 1

\* a returned call whose last processed record is a definition that declared
\* more triples than it has, at least one of which was read
C13_Witness ==
    /\ pc = "done"
    /\ log # <<>>
    /\ PartialDefinition(Len(log))
    /\ log[Len(log)].fields # <<>>

\* the offset behind logged record k: its header byte and its declared fields
BehindRecord(k) == log[k].at + 1 + MessageSize(log[k].fields)

\* the offset of the header byte the scan read last, or is about to read
NextHeaderAt ==
    IF halt \in {"unknown", "truncated"} \/ (pc = "raised" /\ halt = "none")
    THEN pos - 1
    ELSE pos

\* C14: behind every processed data record, of whatever global message, the
\* scan goes on at the offset of the record's header plus one plus the sum of
\* the field sizes of its definition: the next logged record starts there,
\* and so does whatever the scan met behind the last logged record.
C14_NextHeaderOffset ==
    \A k \in 1..Len(log) :
        log[k].kind = "data" =>
            IF k < Len(log)
            THEN log[k + 1].at = BehindRecord(k)
            ELSE pc \in {"scan", "finish", "crc", "done", "raised"}
                    => NextHeaderAt = BehindRecord(k)

\* a returned call that processed a patched data record followed by a
\* device_info data record whose fields run past the end of the buffer
C14_Witness ==
    /\ pc = "done"
    /\ Len(log) >= 2
    /\ log[Len(log)].kind = "data"
    /\ log[Len(log)].global = 23
    /\ BehindRecord(Len(log)) > Len(input)
    /\ log[Len(log) - 1].kind = "data"
    /\ log[Len(log) - 1].global \in {0, 23}
    /\ manufacturer_changed

\* the i-th field of a logged device_info record reads 1 / 3122 in the buffer
\* when it is a manufacturer (2, size 2) or product (4, size 2) field
DeviceInfoReadsPatched(r, i) ==
    LET at == r.at + 1 + OffsetOf(r.fields, i)
        f == r.fields[i]
    IN  /\ (f[1] = 2 /\ f[2] = 2) => (at + 2 <= Len(data) /\ U16(data, at) = 1)
        /\ (f[1] = 4 /\ f[2] = 2) => (at + 2 <= Len(data) /\ U16(data, at) = 3122)

\* the header byte of logged record k
HeaderByteOf(k) == At(input, log[k].at)

\* C15: a header byte with bit 7 set is never read as a definition record,
\* with bit 6 set or not: every logged definition has a header byte in
\* 64..127, a logged record with a header byte of 128 or more is a data
\* record of local type header_byte & 0x0F that was read and, in front of
\* the trailing bytes, patched through the definition of that slot, and
\* when the scan halted on such a byte its slot was unbound.
C15_Bit7IsData ==
    /\ \A k \in 1..Len(log) :
          /\ log[k].kind = "definition" <=> HeaderByteOf(k) \in 64..127
          /\ HeaderByteOf(k) >= 128 =>
                /\ log[k].kind = "data"
                /\ log[k].local = HeaderByteOf(k) % 16
                /\ (log[k].global = 23 /\ BeforeTrailer(log[k]) /\ pc # "raised") =>
                      \A i \in 1..Len(log[k].fields) : DeviceInfoReadsPatched(log[k], i)
                /\ (log[k].global = 0 /\ BeforeTrailer(log[k]) /\ pc # "raised") =>
                      \A i \in 1..Len(log[k].fields) : ReadsPatched(log[k], i)
    /\ halt = "truncated" => At(input, pos - 1) \in 64..127
    /\ (halt = "unknown" /\ At(input, pos - 1) >= 128) =>
          (At(input, pos - 1) % 16) \notin DOMAIN local_definitions

\* a returned call that read a record with header byte 193 (bits 7 and 6
\* set) as a device_info data record and patched its manufacturer field
C15_Witness ==
    /\ pc = "done"
    /\ \E k \in 1..Len(log) :
          /\ HeaderByteOf(k) = 193
          /\ log[k].global = 23
          /\ BeforeTrailer(log[k])
          /\ \E i \in 1..Len(log[k].fields) :
                /\ log[k].fields[i][1] = 2 /\ log[k].fields[i][2] = 2
                /\ U16(input, log[k].at + 1 + OffsetOf(log[k].fields, i)) # 1
                /\ U16(data, log[k].at + 1 + OffsetOf(log[k].fields, i)) = 1

\* the (field number, size) pairs the patcher writes in a record of global g
IsPatchedField(g, f) ==
    \/ g = 0 /\ <<f[1], f[2]>> \in {<<0, 1>>, <<1, 2>>, <<2, 2>>}
    \/ g = 23 /\ <<f[1], f[2]>> \in {<<2, 2>>, <<4, 2>>}

\* the offsets of the i-th field of logged data record r
FieldBytes(r, i) ==
    (r.at + 1 + OffsetOf(r.fields, i)) ..
        (r.at + OffsetOf(r.fields, i) + r.fields[i][2])

\* the offsets of logged record r the patcher has no business with: all of a
\* definition record, all of a data record of another global message, and
\* the header byte and the fields that are not patched of a file_id or
\* device_info record
ProtectedOffsets(r) ==
    IF r.kind = "definition" THEN r.at .. (r.at + 5 + 3 * Len(r.fields))
    ELSE IF r.global \notin {0, 23} THEN r.at .. (r.at + MessageSize(r.fields))
    ELSE {r.at} \cup UNION {FieldBytes(r, i) :
                              i \in {j \in 1..Len(r.fields) : ~IsPatchedField(r.global, r.fields[j])}}

\* C16 as stated: in the returned output every such byte of every processed
\* record is what the input has at the same offset.
C16_AsStated ==
    Returned =>
        \A k \in 1..Len(log) : \A o \in ProtectedOffsets(log[k]) :
            o < Len(input) => At(data, o) = At(input, o)

\* C16 amended: the same for the bytes in front of the input's trailing two
\* bytes, at every point of the scan and in the returned output.
C16_OnlyKnownFields ==
    pc \in {"scan", "finish", "crc", "done"} =>
        \A k \in 1..Len(log) : \A o \in ProtectedOffsets(log[k]) :
            o < Len(input) - 2 => At(data, o) = At(input, o)

\* a returned output with a file_id record in front of the trailing bytes
\* whose manufacturer was rewritten and whose time_created field is there
C16_Witness ==
    /\ Returned
    /\ \E k \in 1..Len(log) :
          LET r == log[k] IN
          /\ r.kind = "data" /\ r.global = 0
          /\ BeforeTrailer(r)
          /\ \E i, j \in 1..Len(r.fields) :
                /\ r.fields[i][1] = 4 /\ r.fields[i][2] = 4
                /\ r.fields[j][1] = 1 /\ r.fields[j][2] = 2
                /\ U16(data, r.at + 1 + OffsetOf(r.fields, j))
                      # U16(input, r.at + 1 + OffsetOf(r.fields, j))

\* the device_info data records the scan processed
DeviceInfoRecords == {k \in 1..Len(log) : log[k].kind = "data" /\ log[k].global = 23}

\* the i-th field of logged data record k is a manufacturer field (file_id
\* field 1 or device_info field 2, size 2) that lies inside the buffer
ManufacturerFieldAt(k, i) ==
    /\ log[k].kind = "data"
    /\ \/ log[k].global = 0 /\ log[k].fields[i][1] = 1
       \/ log[k].global = 23 /\ log[k].fields[i][1] = 2
    /\ log[k].fields[i][2] = 2
    /\ log[k].at + 1 + OffsetOf(log[k].fields, i) + 2 <= Len(input)

\* C17 as stated: in the returned output every processed device_info data
\* record reads manufacturer 1 and product 3122.
C17_AsStated ==
    Returned =>
        \A k \in DeviceInfoRecords :
            \A i \in 1..Len(log[k].fields) : DeviceInfoReadsPatched(log[k], i)

\* C17 amended: the same for every processed device_info data record that
\* ends at or before the input's trailing two bytes, during the scan and in
\* the returned output; and manufacturer_changed is true exactly when a
\* manufacturer field was patched, never because of a product field.
C17_DeviceInfoPatched ==
    /\ pc \in {"scan", "finish", "crc", "done"} =>
          \A k \in DeviceInfoRecords :
              BeforeTrailer(log[k]) =>
                  \A i \in 1..Len(log[k].fields) : DeviceInfoReadsPatched(log[k], i)
    /\ manufacturer_changed <=>
          \E k \in 1..Len(log) : \E i \in 1..Len(log[k].fields) : ManufacturerFieldAt(k, i)

\* a returned output with two device_info records in front of the trailing
\* bytes whose manufacturer and product both differ from the input's
C17_Witness ==
    /\ Returned
    /\ manufacturer_changed
    /\ \E k, m \in DeviceInfoRecords :
          /\ k < m
          /\ \A n \in {k, m} :
                /\ BeforeTrailer(log[n])
                /\ \E i, j \in 1..Len(log[n].fields) :
                      /\ log[n].fields[i][1] = 2 /\ log[n].fields[i][2] = 2
                      /\ log[n].fields[j][1] = 4 /\ log[n].fields[j][2] = 2
                      /\ U16(input, log[n].at + 1 + OffsetOf(log[n].fields, i)) # 1
                      /\ U16(input, log[n].at + 1 + OffsetOf(log[n].fields, j)) # 3122

\* pos never moves back, an iteration of the loop moves it forward, and the
\* records read so far are at most pos - header_size, fewer than len(data)
ScanProgress ==
    /\ [][(pc = "scan" /\ pc' \in {"scan", "finish", "raised"}) => pos' >= pos]_vars
    /\ [][InLoop => pos' > pos]_vars
    /\ [](pc = "scan" =>
             /\ Len(log) <= pos - At(input, 0)
             /\ (InLoop => Len(log) < Len(data)))

\* C18: every iteration of the while loop moves pos forward by at least one
\* byte, the loop has made at most pos - header_size <= len(data) iterations
\* whenever its condition is tested, and a call that is scanning always
\* leaves the loop (at the end of the stream or buffer, at a halt or with an
\* exception).
C18_ScanTerminates ==
    /\ ScanProgress
    /\ (pc = "scan") ~> (pc \in {"finish", "raised"})

\* a returned call whose scan read a data record through a definition with
\* no fields and moved on by the header byte alone
C18_Witness ==
    /\ pc = "done"
    /\ \E k \in 1..(Len(log) - 1) :
          /\ log[k].kind = "data"
          /\ log[k].fields = <<>>
          /\ log[k + 1].at = log[k].at + 1

\* C20 as stated: the field patcher writes only inside the record stream
\* [header_size, end_pos): while the scan runs and when it is over, every
\* byte from end_pos on (the trailing two bytes and whatever lies behind the
\* declared payload) and every header byte from offset 4 on is the input's.
C20_PatchesInsideStream ==
    pc \in {"scan", "finish"} =>
        \A o \in 4..(Len(data) - 1) :
            (o < At(input, 0) \/ o >= end_pos) => At(data, o) = At(input, o)

\* header_size + payload_size == len - 2 for the buffer d
HeaderConsistent(d) ==
    /\ U32(d, 4).hi = 0
    /\ At(d, 0) + U32(d, 4).lo = Len(d) - 2

\* the file_creator block is the 16 bytes in front of the trailing two of d
BlockBeforeTrailer(d) ==
    /\ Len(d) >= 18
    /\ Slice(d, Len(d) - 18, Len(d) - 2) = file_creator_message

\* the call returned an output that the file_creator block was inserted in
BlockInserted == Returned /\ manufacturer_changed /\ ~file_creator_found

\* a returned output of a consistent input is consistent, and an inserted
\* block lies in front of the trailing two bytes inside the declared payload
\* region [header_size, header_size + payload_size)
InsertionKeepsHeader ==
    (Returned /\ HeaderConsistent(input)) =>
        /\ HeaderConsistent(data)
        /\ BlockInserted =>
              /\ BlockBeforeTrailer(data)
              /\ At(data, 0) <= Len(data) - 18
              /\ Len(data) - 2 <= At(data, 0) + U32(data, 4).lo

\* the scan of this call is over, by the loop's end, a break or an exception
ScanOver == pc \in {"finish", "crc", "done", "raised"}

\* the scan read a global-49 definition at the offset of the block in front
\* of the input's trailing two bytes
ReachedBlock ==
    \E k \in 1..Len(log) :
        /\ log[k].kind = "definition"
        /\ log[k].at = Len(input) - 18
        /\ log[k].global = FILE_CREATOR

\* the input of a later call is a consistent output with the block in it
\* (no first input ends with the block: it is the one an earlier call put in)
ScansInsertedBlock ==
    /\ pass >= 2
    /\ HeaderConsistent(input)
    /\ BlockBeforeTrailer(input)
    /\ ScanOver

\* C21 as stated: the insertion keeps header_size + payload_size == len - 2,
\* the inserted block lies inside the declared payload region right in front
\* of the trailing checksum, and a later scan of such an output reaches the
\* block's global-49 definition.
C21_InsertionConsistent ==
    /\ InsertionKeepsHeader
    /\ ScansInsertedBlock => ReachedBlock

\* the input's payload_size plus 16 is above 4294967295
SizeOverflows == ~FitsU32(WideAdd(U32(input, 4), 16))

\* the scan is over and the block has to be inserted
MustInsert == manufacturer_changed /\ ~file_creator_found

\* C22: the payload_size written back never wraps.  A call that has to insert
\* the block while the input's payload_size plus 16 is above 4294967295 goes
\* from the end of its scan to the exception and no bytes, never on to the
\* checksum step; the payload_size of every returned output is a u32 that is
\* the input's value or that value plus 16, not reduced modulo 2^32.
C22_PayloadSizeNeverWraps ==
    /\ [](Returned =>
            /\ FitsU32(U32(data, 4))
            /\ U32(data, 4) \in {U32(input, 4), WideAdd(U32(input, 4), 16)})
    /\ []((pc \in {"crc", "done"} /\ MustInsert) => ~SizeOverflows)
    /\ [][(pc = "finish" /\ MustInsert /\ SizeOverflows)
             => (pc' = "raised" /\ error' # "" /\ data' = <<>>)]_vars

\* a call that patched a manufacturer field, saw no file_creator and raised
\* on 4294967280 + 16, the smallest sum that does not fit
C22_Witness ==
    /\ pc = "raised"
    /\ error # ""
    /\ MustInsert
    /\ U32(input, 4) = [lo |-> 65520, hi |-> 65535]
    /\ SizeOverflows

---------------------------------------------------------------------------
(* Claims on two concurrent calls (SpecPair).                              *)

\* C11: two calls on independent inputs running on two threads share no
\* mutable state: under every interleaving of their steps each call ends
\* with the outcome (bytes returned, or exception) it has when run alone.
C11_CallsIndependent ==
    mode = "paired" =>
        /\ Finished(Locals) => Outcome(Locals) \in solo
        /\ Finished(peer) => Outcome(peer) \in solo

\* both calls are over, they were given different inputs, both patched a
\* manufacturer field, and the waiting one was left while the other one,
\* started later or earlier, was still scanning
C11_Witness ==
    /\ mode = "paired"
    /\ Finished(Locals) /\ Finished(peer)
    /\ input # peer.input
    /\ manufacturer_changed /\ peer.manufacturer_changed
    /\ pc = "done" /\ peer.pc = "done"
    /\ Cardinality(solo) = 2

---------------------------------------------------------------------------
(* Claims on calculate_crc16 (SpecCrc).                                    *)

\* one bit of the CRC-16 with the reflected polynomial 0xA001
Crc16Bit == [c \in Nat |-> IF c % 2 = 1 THEN Xor16(c \div 2, 40961) ELSE c \div 2]

Crc16Bits[c \in Nat, n \in Nat] == IF n = 0 THEN c ELSE Crc16Bits[Crc16Bit[c], n - 1]

\* that CRC-16 of the first n bytes of d, computed bit by bit from 0
Crc16Reference(d, n) ==
    LET loop[k \in Nat, c \in Nat] ==
            IF k > n THEN c ELSE loop[k + 1, Crc16Bits[Xor16(c, d[k]), 8]]
    IN  loop[1, 0]

\* C19: calculate_crc16 starts from 0 and updates crc with the low nibble of
\* each byte and then with its high nibble; crc is in 0..65535 after every
\* update, between two bytes it is the CRC-16 of the bytes consumed so far,
\* the value returned is that of the whole sequence (0 for the empty one) and
\* is what the conversion writes behind a buffer with these bytes.
C19_CrcNibbleSteps ==
    mode = "crc16" =>
        /\ crc_reg \in 0..65535
        /\ (pc = "crc_for" /\ pos = 0) => crc_reg = 0
        /\ pc \in {"crc_for", "crc_return"} => crc_reg = Crc16Reference(input, pos)
        /\ pc = "crc_high" =>
              crc_reg = CrcStep(Crc16Reference(input, pos), At(input, pos) % 16)
        /\ pc = "crc_return" =>
              /\ pos = Len(input)
              /\ crc_reg = calculate_crc16(input, Len(input))
              /\ input = <<>> => crc_reg = 0

\* calculate_crc16 returned a value above 255 for three bytes whose low and
\* high nibbles differ
C19_Witness ==
    /\ mode = "crc16"
    /\ pc = "crc_return"
    /\ Len(input) = 3
    /\ crc_reg > 255
    /\ \A i \in 0..2 : At(input, i) % 16 # At(input, i) \div 16

====
